---- MODULE Spec2Model ----
(***************************************************************************)
(* Control loops of examples/arm.py and examples/mobile_stretch.py, and    *)
(* the utility functions exercised by tests/test_utils.py.                 *)
(*                                                                         *)
(* Units: time is counted in milliseconds, so that rate.period is an       *)
(* integer (1000 / frequency); joint positions are integers; the keyword   *)
(* values of the tests are counted in tenths (0.2 is 2).                   *)
(***************************************************************************)
EXTENDS Integers, Sequences, FiniteSets, TLC

VARIABLES
    example,        \* which script runs: "arm" or "mobile_stretch"
    robot_q0,       \* robot.q0, the initial joint position
    status,         \* "running", "raised", "interrupted" or "exited"
    raisedBy,       \* the call whose exception left the loop, or "none"
    pc,             \* the statement of the loop body to execute next
    t,              \* the loop's time accumulator
    heap,           \* the Configuration objects built so far: id -> q
    configuration,  \* the object the name `configuration` is bound to
    q,              \* arm.py's local q: <<>> while unbound, else <<value>>
    velocity,       \* the last value returned by solve_ik (<<>> while unbound)
    target,         \* the moving task target (a transform)
    viewer,         \* meshcat scene graph: frame name -> transform
    displayed,      \* the joint position last handed to viz.display
    clock,          \* wall-clock time
    nextTick,       \* the rate limiter's next tick
    count,          \* how often each statement of the body has completed
    solvedAt,       \* history: the joint position solve_ik was called on
    shown,          \* history: the joint positions displayed inside the loop
    velHist,        \* history: the velocities solve_ik returned
    targetTimes,    \* history: the value of t used by each target update
    kwargs,         \* tests: keyword arguments of custom_configuration_vector
    qvec,           \* tests: its result (<<>> before the call)
    nv,             \* tests: robot.model.nv
    tangent,        \* tests: VectorSpace(nv) (<<>> before the call)
    shapes,         \* tests: the shapes read off tangent (<<>> before)
    ran             \* tests: the test cases that have run

loopVars == <<example, robot_q0, status, raisedBy, pc, t, heap, configuration,
              q, velocity, target, viewer, displayed, clock, nextTick, count,
              solvedAt, shown, velHist, targetTimes>>
testVars == <<kwargs, qvec, nv, tangent, shapes, ran>>
vars == <<example, robot_q0, status, raisedBy, pc, t, heap, configuration,
          q, velocity, target, viewer, displayed, clock, nextTick, count,
          solvedAt, shown, velHist, targetTimes, kwargs, qvec, nv, tangent,
          shapes, ran>>

(***************************************************************************)
(* Bounds of the model.                                                    *)
(***************************************************************************)
MaxIter == 3
MaxNv == 3

Examples == {"arm", "mobile_stretch"}
InitialPositions == {0, 3}
\* what solve_ik may return: any tangent vector
Velocities == {-1, 0, 1}
\* how long solve_ik may take: less than a period, or more than both periods
WorkDurations == {2, 12}

Last(s) == s[Len(s)]
Max(a, b) == IF a >= b THEN a ELSE b

(***************************************************************************)
(* Collaborators.                                                          *)
(***************************************************************************)
\* RateLimiter(frequency=...)
Frequency(ex) == IF ex = "arm" THEN 200 ELSE 100
\* dt = rate.period
Period(ex) == 1000 \div Frequency(ex)

\* configuration.integrate / integrate_inplace on a vector-space joint
Integrate(pos, v, dt) == pos + v * dt

\* transforms, kept symbolic: which frame or rule, evaluated at which argument
Identity == [of |-> "identity", at |-> 0]
Pose(body, pos) == [of |-> body, at |-> pos]
\* the time-parameterized rule that moves the target
TargetRule(ex, time) ==
    [of |-> IF ex = "arm" THEN "end_effector_target" ELSE "base_target", at |-> time]
FingertipTarget == [of |-> "fingertip_target", at |-> 0]

FrameNames ==
    {"end_effector_target", "end_effector", "base_target_frame",
     "fingertip_target_frame", "base_frame", "fingertip_frame"}

\* the set_transform calls of one iteration, in order: <<frame, transform>>
FrameUpdates(ex, tgt, pos) ==
    IF ex = "arm"
    THEN << <<"end_effector_target", tgt>>,
            <<"end_effector", Pose("j2s6s200_end_effector", pos)>> >>
    ELSE << <<"base_target_frame", tgt>>,
            <<"fingertip_target_frame", FingertipTarget>>,
            <<"base_frame", Pose("base_link", pos)>>,
            <<"fingertip_frame", Pose("link_gripper_fingertip_right", pos)>> >>

\* the viewer after the first n calls of ups
RECURSIVE ApplyUpdates(_, _, _)
ApplyUpdates(vw, ups, n) ==
    IF n = 0 THEN vw
    ELSE [ApplyUpdates(vw, ups, n - 1) EXCEPT ![ups[n][1]] = ups[n][2]]

(***************************************************************************)
(* The loop body.                                                          *)
(***************************************************************************)
StepNames ==
    {"update", "frames", "solve", "integrate", "apply", "display", "sleep",
     "advance"}

\* C10's mutant: the marker frames are refreshed after the integration
BodyFramesAfterIntegration(ex) ==
    IF ex = "arm"
    THEN <<"update", "solve", "integrate", "apply", "frames", "display",
           "sleep", "advance">>
    ELSE <<"update", "solve", "integrate", "frames", "display", "sleep",
           "advance">>

\* the statements of `while True:`, in source order
Body(ex) ==
    IF ex = "arm"
    THEN <<"update", "frames", "solve", "integrate", "apply", "display",
           "sleep", "advance">>
    ELSE <<"update", "frames", "solve", "integrate", "display", "sleep",
           "advance">>

IndexOf(s, x) == CHOOSE i \in 1..Len(s) : s[i] = x

\* the statement after step; after the last one, back to the loop test
After(ex, step) ==
    LET b == Body(ex)
        i == IndexOf(b, step)
    IN  IF i = Len(b) THEN b[1] ELSE b[i + 1]

\* C4's mutant: a loop with an exit condition of its own
LoopConditionTimed == t < Period(example)

\* `while True:`
LoopCondition == TRUE

\* replace mode: q = configuration.integrate(velocity, dt)
ArmIntegrate(hp, conf, v, dt) == Integrate(hp[conf], v, dt)

\* configuration = pink.apply_configuration(robot, q): a new object
ApplyConfiguration(hp, pos) ==
    [heap |-> Append(hp, pos), configuration |-> Len(hp) + 1]

\* C9's mutant: integrate called for its value, which is dropped
IntegrateDiscarded(hp, conf, v, dt) == hp

\* in-place mode: configuration.integrate_inplace(velocity, dt)
IntegrateInplace(hp, conf, v, dt) ==
    [hp EXCEPT ![conf] = Integrate(hp[conf], v, dt)]

\* C1's mutant: the loop displays the configuration built before the loop
DisplayArgumentInitial(ex, hp, conf, local) == hp[1]

\* the argument of viz.display inside the loop
DisplayArgument(ex, hp, conf, local) ==
    IF ex = "arm" THEN local[1] ELSE hp[conf]

Done(step) == [count EXCEPT ![step] = @ + 1]

Running == status = "running"

UpdateTargets ==
    /\ Running /\ pc = "update"
    /\ count["advance"] < MaxIter
    /\ target' = TargetRule(example, t)
    /\ targetTimes' = Append(targetTimes, t)
    /\ count' = Done("update")
    /\ pc' = After(example, "update")
    /\ UNCHANGED <<example, robot_q0, status, raisedBy, t, heap, configuration,
                   q, velocity, viewer, displayed, clock, nextTick, solvedAt,
                   shown, velHist>>
    /\ UNCHANGED testVars

UpdateFrames ==
    /\ Running /\ pc = "frames"
    /\ LET ups == FrameUpdates(example, target, heap[configuration])
       IN  viewer' = ApplyUpdates(viewer, ups, Len(ups))
    /\ count' = Done("frames")
    /\ pc' = After(example, "frames")
    /\ UNCHANGED <<example, robot_q0, status, raisedBy, t, heap, configuration,
                   q, velocity, target, displayed, clock, nextTick, solvedAt,
                   shown, velHist, targetTimes>>
    /\ UNCHANGED testVars

\* one of the set_transform calls raises: the calls before it have acted
UpdateFramesRaises ==
    /\ Running /\ pc = "frames"
    /\ LET ups == FrameUpdates(example, target, heap[configuration])
       IN  \E n \in 1..Len(ups) : viewer' = ApplyUpdates(viewer, ups, n - 1)
    /\ status' = "raised"
    /\ raisedBy' = "set_transform"
    /\ UNCHANGED <<example, robot_q0, pc, t, heap, configuration, q, velocity,
                   target, displayed, clock, nextTick, count, solvedAt, shown,
                   velHist, targetTimes>>
    /\ UNCHANGED testVars

Solve ==
    /\ Running /\ pc = "solve"
    /\ \E v \in Velocities, d \in WorkDurations :
          /\ velocity' = <<v>>
          /\ velHist' = Append(velHist, v)
          /\ clock' = clock + d
    /\ solvedAt' = Append(solvedAt, heap[configuration])
    /\ count' = Done("solve")
    /\ pc' = After(example, "solve")
    /\ UNCHANGED <<example, robot_q0, status, raisedBy, t, heap, configuration,
                   q, target, viewer, displayed, nextTick, shown, targetTimes>>
    /\ UNCHANGED testVars

\* C2's mutant: the failure is caught and the loop goes on to render
SolveRaisesSwallowed ==
    /\ Running /\ pc = "solve"
    /\ raisedBy' = "solve_ik"
    /\ pc' = "display"
    /\ UNCHANGED <<example, robot_q0, status, t, heap, configuration, q,
                   velocity, target, viewer, displayed, clock, nextTick, count,
                   solvedAt, shown, velHist, targetTimes>>
    /\ UNCHANGED testVars

\* solve_ik raises: nothing in the loop catches it
SolveRaises ==
    /\ Running /\ pc = "solve"
    /\ status' = "raised"
    /\ raisedBy' = "solve_ik"
    /\ UNCHANGED <<example, robot_q0, pc, t, heap, configuration, q, velocity,
                   target, viewer, displayed, clock, nextTick, count, solvedAt,
                   shown, velHist, targetTimes>>
    /\ UNCHANGED testVars

IntegrateStep ==
    /\ Running /\ pc = "integrate"
    /\ IF example = "arm"
       THEN /\ q' = <<ArmIntegrate(heap, configuration, velocity[1], Period(example))>>
            /\ heap' = heap
       ELSE /\ heap' = IntegrateInplace(heap, configuration, velocity[1], Period(example))
            /\ q' = q
    /\ count' = Done("integrate")
    /\ pc' = After(example, "integrate")
    /\ UNCHANGED <<example, robot_q0, status, raisedBy, t, configuration,
                   velocity, target, viewer, displayed, clock, nextTick,
                   solvedAt, shown, velHist, targetTimes>>
    /\ UNCHANGED testVars

Apply ==
    /\ Running /\ pc = "apply"
    /\ LET new == ApplyConfiguration(heap, q[1])
       IN  /\ heap' = new.heap
           /\ configuration' = new.configuration
    /\ count' = Done("apply")
    /\ pc' = After(example, "apply")
    /\ UNCHANGED <<example, robot_q0, status, raisedBy, t, q, velocity, target,
                   viewer, displayed, clock, nextTick, solvedAt, shown, velHist,
                   targetTimes>>
    /\ UNCHANGED testVars

Display ==
    /\ Running /\ pc = "display"
    /\ displayed' = DisplayArgument(example, heap, configuration, q)
    /\ shown' = Append(shown, displayed')
    /\ count' = Done("display")
    /\ pc' = After(example, "display")
    /\ UNCHANGED <<example, robot_q0, status, raisedBy, t, heap, configuration,
                   q, velocity, target, viewer, clock, nextTick, solvedAt,
                   velHist, targetTimes>>
    /\ UNCHANGED testVars

\* viz.display raises: nothing in the loop catches it
DisplayRaises ==
    /\ Running /\ pc = "display"
    /\ status' = "raised"
    /\ raisedBy' = "display"
    /\ UNCHANGED <<example, robot_q0, pc, t, heap, configuration, q, velocity,
                   target, viewer, displayed, clock, nextTick, count, solvedAt,
                   shown, velHist, targetTimes>>
    /\ UNCHANGED testVars

\* rate.sleep(): block until the next tick, then schedule the one after
Sleep ==
    /\ Running /\ pc = "sleep"
    /\ clock' = Max(clock, nextTick)
    /\ nextTick' = clock' + Period(example)
    /\ count' = Done("sleep")
    /\ pc' = After(example, "sleep")
    /\ UNCHANGED <<example, robot_q0, status, raisedBy, t, heap, configuration,
                   q, velocity, target, viewer, displayed, solvedAt, shown,
                   velHist, targetTimes>>
    /\ UNCHANGED testVars

\* C8's mutant: t follows the wall clock instead of the nominal period
AdvanceTimeByClock ==
    /\ Running /\ pc = "advance"
    /\ t' = clock
    /\ count' = Done("advance")
    /\ pc' = After(example, "advance")
    /\ UNCHANGED <<example, robot_q0, status, raisedBy, heap, configuration, q,
                   velocity, target, viewer, displayed, clock, nextTick,
                   solvedAt, shown, velHist, targetTimes>>
    /\ UNCHANGED testVars

\* t += dt, then back to the loop test
AdvanceTime ==
    /\ Running /\ pc = "advance"
    /\ t' = t + Period(example)
    /\ count' = Done("advance")
    /\ IF LoopCondition
       THEN pc' = After(example, "advance") /\ status' = status
       ELSE pc' = pc /\ status' = "exited"
    /\ UNCHANGED <<example, robot_q0, raisedBy, heap, configuration, q,
                   velocity, target, viewer, displayed, clock, nextTick,
                   solvedAt, shown, velHist, targetTimes>>
    /\ UNCHANGED testVars

\* KeyboardInterrupt, at any statement
Interrupt ==
    /\ Running
    /\ status' = "interrupted"
    /\ UNCHANGED <<example, robot_q0, raisedBy, pc, t, heap, configuration, q,
                   velocity, target, viewer, displayed, clock, nextTick, count,
                   solvedAt, shown, velHist, targetTimes>>
    /\ UNCHANGED testVars

TestsIdle ==
    /\ kwargs = <<>>
    /\ qvec = <<>>
    /\ nv = 0
    /\ tangent = <<>>
    /\ shapes = <<>>
    /\ ran = {}

\* the state on reaching `while True:`
LoopInit ==
    /\ example \in Examples
    /\ robot_q0 \in InitialPositions
    /\ status = "running"
    /\ raisedBy = "none"
    /\ pc = "update"
    /\ t = 0
    /\ heap = <<robot_q0>>
    /\ configuration = 1
    /\ q = <<>>
    /\ velocity = <<>>
    /\ target = Identity
    /\ viewer = [f \in FrameNames |-> Identity]
    /\ displayed = robot_q0
    /\ clock = 0
    /\ nextTick = Period(example)
    /\ count = [s \in StepNames |-> 0]
    /\ solvedAt = <<>>
    /\ shown = <<>>
    /\ velHist = <<>>
    /\ targetTimes = <<>>

Init == LoopInit /\ TestsIdle

Next ==
    \/ UpdateTargets
    \/ UpdateFrames
    \/ UpdateFramesRaises
    \/ Solve
    \/ SolveRaises
    \/ IntegrateStep
    \/ Apply
    \/ Display
    \/ DisplayRaises
    \/ Sleep
    \/ AdvanceTime
    \/ Interrupt

Spec == Init /\ [][Next]_vars

\* the same loops with a visualization sink that never fails
NextVizOk ==
    \/ UpdateTargets
    \/ UpdateFrames
    \/ Solve
    \/ SolveRaises
    \/ IntegrateStep
    \/ Apply
    \/ Display
    \/ Sleep
    \/ AdvanceTime
    \/ Interrupt

SpecVizOk == Init /\ [][NextVizOk]_vars

(***************************************************************************)
(* Reference runs of the two integration modes: the joint positions each   *)
(* mode solves on and displays, from position start, for velocities vels.  *)
(***************************************************************************)
RECURSIVE ReplaceRun(_, _, _)
ReplaceRun(start, vels, dt) ==
    IF vels = <<>>
    THEN [heap |-> <<start>>, configuration |-> 1, solvedAt |-> <<>>, shown |-> <<>>]
    ELSE LET prev == ReplaceRun(start, SubSeq(vels, 1, Len(vels) - 1), dt)
             local == <<ArmIntegrate(prev.heap, prev.configuration, Last(vels), dt)>>
             new == ApplyConfiguration(prev.heap, local[1])
         IN  [heap |-> new.heap,
              configuration |-> new.configuration,
              solvedAt |-> Append(prev.solvedAt, prev.heap[prev.configuration]),
              shown |-> Append(prev.shown,
                               DisplayArgument("arm", new.heap, new.configuration, local))]

RECURSIVE InplaceRun(_, _, _)
InplaceRun(start, vels, dt) ==
    IF vels = <<>>
    THEN [heap |-> <<start>>, configuration |-> 1, solvedAt |-> <<>>, shown |-> <<>>]
    ELSE LET prev == InplaceRun(start, SubSeq(vels, 1, Len(vels) - 1), dt)
             hp == IntegrateInplace(prev.heap, prev.configuration, Last(vels), dt)
         IN  [heap |-> hp,
              configuration |-> prev.configuration,
              solvedAt |-> Append(prev.solvedAt, prev.heap[prev.configuration]),
              shown |-> Append(prev.shown,
                               DisplayArgument("mobile_stretch", hp, prev.configuration, <<>>))]

(***************************************************************************)
(* Claims about the control loops.                                         *)
(***************************************************************************)
Terminal == status # "running"

\* C1: in every iteration the steps run in the fixed order target update,
\* solve_ik, integration, viz.display, rate.sleep, t += dt, none skipped or
\* repeated (each step has completed as often as the one before it, or once
\* less, and the first at most once more than the last); solve_ik is called on
\* the current configuration, and the position displayed inside the loop is the
\* integration of the velocity solved in the same iteration.
C1_FixedOrder ==
    /\ \A p \in {<<"update", "solve">>, <<"solve", "integrate">>,
                 <<"integrate", "display">>, <<"display", "sleep">>,
                 <<"sleep", "advance">>} :
          count[p[1]] - count[p[2]] \in {0, 1}
    /\ count["update"] - count["advance"] \in {0, 1}
    /\ Len(solvedAt) = count["solve"]
    /\ Len(velHist) = count["solve"]
    /\ Len(shown) = count["display"]
    /\ \A k \in 1..Len(solvedAt) :
          solvedAt[k] = IF k = 1 THEN robot_q0 ELSE shown[k - 1]
    /\ \A k \in 1..Len(shown) :
          shown[k] = Integrate(solvedAt[k], velHist[k], Period(example))

C1_Witness ==
    /\ count["advance"] >= 2
    /\ pc = "sleep"
    /\ Len(shown) = 3
    /\ shown[3] # shown[2]

\* C2: a failing solve_ik is surfaced and never skipped: the loop is then in
\* its raised state at the solve statement, the step that raises leaves the
\* configuration, the integrations and the displayed positions as they were, no
\* integration or display follows the failed solve, and nothing happens after.
C2_SolveFailureSurfaces ==
    /\ [](raisedBy = "solve_ik" =>
            /\ status = "raised"
            /\ pc = "solve"
            /\ count["integrate"] = count["solve"]
            /\ count["display"] = count["solve"]
            /\ Len(shown) = Len(velHist)
            /\ heap[configuration] = IF shown = <<>> THEN robot_q0 ELSE Last(shown))
    /\ [][raisedBy' = "solve_ik" =>
            /\ heap' = heap
            /\ configuration' = configuration
            /\ q' = q
            /\ displayed' = displayed
            /\ shown' = shown
            /\ count' = count]_vars
    /\ [][raisedBy = "solve_ik" => UNCHANGED vars]_vars

C2_Witness ==
    /\ raisedBy = "solve_ik"
    /\ count["advance"] >= 1

\* C3: a failing render call (viz.display, set_transform) never aborts the
\* control loop: after it the loop is still running.
C3_RenderFailureDoesNotAbort ==
    raisedBy \in {"set_transform", "display"} => status = "running"

\* C4 as stated: the loop reaches a terminal state only by an external
\* interrupt.
C4_OnlyInterruptTerminates == Terminal => status = "interrupted"

LoopStep ==
    \/ UpdateTargets
    \/ UpdateFrames
    \/ Solve
    \/ IntegrateStep
    \/ Apply
    \/ Display
    \/ Sleep
    \/ AdvanceTime

\* C4 as amended: the loop has no exit condition of its own: while running it
\* can always take its next step (within the iterations modelled), the last
\* step leads back to the first, and it is terminal only by an external
\* interrupt or by an exception raised by a call of the loop body.
C4_NoExitOfItsOwn ==
    /\ status \in {"running", "interrupted", "raised"}
    /\ status = "raised" <=> raisedBy # "none"
    /\ (Running /\ count["advance"] < MaxIter) => ENABLED LoopStep
    /\ (Running /\ count["update"] = count["advance"]) => pc = "update"

C4_Witness ==
    /\ Running
    /\ count["advance"] >= 2
    /\ pc = "update"

\* C8: t starts at 0, changes only in the last step of an iteration and then
\* by exactly dt = rate.period, whatever the wall clock did meanwhile: t is the
\* number of completed iterations times dt, and the k-th target update (k from
\* 0) uses the time k * dt.
C8_TimeAccumulator ==
    /\ [](/\ t = count["advance"] * Period(example)
          /\ Len(targetTimes) = count["update"]
          /\ \A k \in 1..Len(targetTimes) :
                targetTimes[k] = (k - 1) * Period(example))
    /\ [][t' # t =>
            /\ pc = "advance"
            /\ t' = t + Period(example)
            /\ count'["advance"] = count["advance"] + 1]_vars

C8_Witness ==
    /\ count["advance"] >= 2
    /\ Len(targetTimes) = 3
    /\ clock > t + Period(example)

\* C9: the two integration modes are equivalent as seen by the loop: the
\* positions the running example solves on and displays are those the other
\* mode produces from the same initial position and the same velocities; and
\* the replace mode leaves every earlier configuration as it was.
C9_ModesEquivalent ==
    LET other == IF example = "arm"
                 THEN InplaceRun(robot_q0, velHist, Period(example))
                 ELSE ReplaceRun(robot_q0, velHist, Period(example))
    IN  /\ solvedAt = other.solvedAt
        /\ shown = SubSeq(other.shown, 1, Len(shown))
        /\ example = "arm" => \A k \in 1..Len(solvedAt) : heap[k] = solvedAt[k]

C9_Witness ==
    /\ example = "mobile_stretch"
    /\ Len(shown) = 3
    /\ shown[3] # shown[2]
    /\ shown[2] # shown[1]

\* C10: the current-pose markers are set before the solve and not refreshed
\* afterwards: the viewer changes only in the frame-update step, and at every
\* rate.sleep() the markers show the pose of the configuration solved on while
\* the robot is displayed at that configuration integrated by one step.
C10_MarkerLagsOneStep ==
    /\ [](pc = "sleep" =>
            /\ displayed = Integrate(Last(solvedAt), Last(velHist), Period(example))
            /\ IF example = "arm"
               THEN viewer["end_effector"] =
                        Pose("j2s6s200_end_effector", Last(solvedAt))
               ELSE /\ viewer["base_frame"] = Pose("base_link", Last(solvedAt))
                    /\ viewer["fingertip_frame"] =
                           Pose("link_gripper_fingertip_right", Last(solvedAt)))
    /\ [][viewer' # viewer => pc = "frames"]_vars

C10_Witness ==
    /\ pc = "sleep"
    /\ count["advance"] >= 1
    /\ example = "arm"
    /\ viewer["end_effector"] = Pose("j2s6s200_end_effector", Last(solvedAt))
    /\ displayed # Last(solvedAt)

(***************************************************************************)
(* tests/test_utils.py: the utilities under test and the test cases.       *)
(* Arrays are functions from numpy's zero-based indices (a pair of indices *)
(* for a matrix) to values.                                                *)
(***************************************************************************)
JointNames ==
    {"left_hip", "left_knee", "left_wheel", "right_hip", "right_knee",
     "right_wheel"}
\* keyword values, in tenths
KwValues == {-2, 2}

\* Upkie with a free-flyer root joint: seven base coordinates (the
\* quaternion's w, 1.0, at index 6), then one coordinate per joint
Upkie ==
    [q0 |-> [i \in 0..12 |-> IF i = 6 THEN 10 ELSE 0],
     idx_q |-> [n \in JointNames |->
                  CASE n = "left_hip" -> 7
                    [] n = "left_knee" -> 8
                    [] n = "left_wheel" -> 9
                    [] n = "right_hip" -> 10
                    [] n = "right_knee" -> 11
                    [] n = "right_wheel" -> 12]]

\* C6's mutant: the tangent index idx_v (one less behind a free flyer) is
\* used in place of the configuration index idx_q
RECURSIVE CustomConfigurationVectorIdxV(_, _)
CustomConfigurationVectorIdxV(robot, kw) ==
    IF DOMAIN kw = {} THEN robot.q0
    ELSE LET n == CHOOSE m \in DOMAIN kw : TRUE
             rest == [m \in DOMAIN kw \ {n} |-> kw[m]]
         IN  [CustomConfigurationVectorIdxV(robot, rest)
                 EXCEPT ![robot.idx_q[n] - 1] = kw[n]]

\* custom_configuration_vector(robot, **kwargs): the default configuration
\* with the coordinate of each named joint set to its value
RECURSIVE CustomConfigurationVector(_, _)
CustomConfigurationVector(robot, kw) ==
    IF DOMAIN kw = {} THEN robot.q0
    ELSE LET n == CHOOSE m \in DOMAIN kw : TRUE
             rest == [m \in DOMAIN kw \ {n} |-> kw[m]]
         IN  [CustomConfigurationVector(robot, rest)
                 EXCEPT ![robot.idx_q[n]] = kw[n]]

\* C7's mutant: the space is built with nq (nv + 1 behind a free flyer)
VectorSpaceOfNq(n) ==
    [eye |-> [p \in (0..n) \X (0..n) |-> IF p[1] = p[2] THEN 1 ELSE 0],
     ones |-> [i \in 0..n |-> 1],
     zeros |-> [i \in 0..n |-> 0]]

\* VectorSpace(nv): identity matrix, all-ones and all-zeros vectors
VectorSpace(n) ==
    [eye |-> [p \in (0..(n - 1)) \X (0..(n - 1)) |-> IF p[1] = p[2] THEN 1 ELSE 0],
     ones |-> [i \in 0..(n - 1) |-> 1],
     zeros |-> [i \in 0..(n - 1) |-> 0]]

\* numpy's .shape of a vector and of a matrix
Shape1(a) == <<Cardinality(DOMAIN a)>>
Shape2(a) ==
    <<Cardinality({p[1] : p \in DOMAIN a}), Cardinality({p[2] : p \in DOMAIN a})>>

TestCustomConfigurationVector ==
    /\ status = "idle"
    /\ "custom_configuration_vector" \notin ran
    /\ qvec' = CustomConfigurationVector(Upkie, kwargs)
    /\ ran' = ran \cup {"custom_configuration_vector"}
    /\ UNCHANGED <<kwargs, nv, tangent, shapes>>
    /\ UNCHANGED loopVars

TestVectorSpace ==
    /\ status = "idle"
    /\ "vector_space" \notin ran
    /\ tangent' = VectorSpace(nv)
    /\ shapes' = [eye |-> Shape2(tangent'.eye),
                  ones |-> Shape1(tangent'.ones),
                  zeros |-> Shape1(tangent'.zeros)]
    /\ ran' = ran \cup {"vector_space"}
    /\ UNCHANGED <<kwargs, qvec, nv>>
    /\ UNCHANGED loopVars

LoopIdle ==
    /\ example = "arm"
    /\ robot_q0 = 0
    /\ status = "idle"
    /\ raisedBy = "none"
    /\ pc = "update"
    /\ t = 0
    /\ heap = <<robot_q0>>
    /\ configuration = 1
    /\ q = <<>>
    /\ velocity = <<>>
    /\ target = Identity
    /\ viewer = [f \in FrameNames |-> Identity]
    /\ displayed = robot_q0
    /\ clock = 0
    /\ nextTick = 0
    /\ count = [s \in StepNames |-> 0]
    /\ solvedAt = <<>>
    /\ shown = <<>>
    /\ velHist = <<>>
    /\ targetTimes = <<>>

InitTests ==
    /\ LoopIdle
    /\ kwargs \in UNION {[S -> KwValues] : S \in SUBSET JointNames}
    /\ nv \in 0..MaxNv
    /\ qvec = <<>>
    /\ tangent = <<>>
    /\ shapes = <<>>
    /\ ran = {}

NextTests ==
    \/ TestCustomConfigurationVector
    \/ TestVectorSpace

SpecTests == InitTests /\ [][NextTests]_vars

(***************************************************************************)
(* Claims about the utilities.                                             *)
(***************************************************************************)
\* C6: custom_configuration_vector returns a vector in which the index of each
\* named joint holds exactly the given value and every other index holds the
\* model's default value.
C6_CustomConfigurationVector ==
    "custom_configuration_vector" \in ran =>
        /\ DOMAIN qvec = DOMAIN Upkie.q0
        /\ \A n \in DOMAIN kwargs : qvec[Upkie.idx_q[n]] = kwargs[n]
        /\ \A i \in DOMAIN qvec :
              (\A n \in DOMAIN kwargs : Upkie.idx_q[n] # i) => qvec[i] = Upkie.q0[i]

C6_Witness ==
    /\ "custom_configuration_vector" \in ran
    /\ DOMAIN kwargs = {"left_knee", "right_knee"}
    /\ kwargs["left_knee"] = 2
    /\ kwargs["right_knee"] = -2
    /\ qvec[8] = 2
    /\ qvec[11] = -2
    /\ qvec[6] = 10

\* C7: for every nv, VectorSpace(nv) has eye of shape (nv, nv) and ones and
\* zeros of shape (nv,).
C7_VectorSpaceShapes ==
    "vector_space" \in ran =>
        /\ shapes.eye = <<nv, nv>>
        /\ shapes.ones = <<nv>>
        /\ shapes.zeros = <<nv>>

C7_Witness ==
    /\ "vector_space" \in ran
    /\ nv = MaxNv
    /\ shapes.eye = <<MaxNv, MaxNv>>

====
